---------------------------- MODULE Spec2Model ----------------------------
(***************************************************************************)
(* Model of phalconScaper.py: one POST request, the transformation of the  *)
(* raw records into AttackIncident objects, and the CSV writer.            *)
(*                                                                         *)
(* A text (a Python str, the content of the output file) is a sequence of  *)
(* one-character strings, so that formatting, concatenation and splitting  *)
(* on a delimiter are computed character by character.                     *)
(***************************************************************************)
EXTENDS Integers, Sequences, FiniteSets, TLC

(***************************************************************************)
(* Bounds of the model                                                     *)
(***************************************************************************)
\* raw records in one response (Spec)
MaxRecords == 2
\* transactions in one raw record (Spec)
MaxTxns == 2
\* raw records in one response of the repeated-runs specification
RunMaxRecords == 1
\* transactions in one raw record of the repeated-runs specification
RunMaxTxns == 1

(***************************************************************************)
(* Texts                                                                   *)
(***************************************************************************)
NL == "\n"

Digits == <<"0", "1", "2", "3", "4", "5", "6", "7", "8", "9">>

\* str(n) of a non-negative int, as the f-strings of write_to_csv format it
RECURSIVE Str(_)
Str(n) == IF n < 10 THEN <<Digits[n + 1]>>
          ELSE Str(n \div 10) \o <<Digits[(n % 10) + 1]>>

\* strftime's zero-padded two-digit fields (%m, %d, %H, %M)
Pad2(n) == <<Digits[((n \div 10) % 10) + 1], Digits[(n % 10) + 1]>>

\* strftime's %Y for a four-digit year
Pad4(n) == Pad2(n \div 100) \o Pad2(n % 100)

\* str.split(sep): the pieces of s between the occurrences of sep; SplitFrom
\* gives the pieces of s from position start on
RECURSIVE SplitFrom(_, _, _)
SplitFrom(s, sep, start) ==
    LET later == {j \in start..Len(s) : s[j] = sep}
    IN  IF later = {} THEN <<SubSeq(s, start, Len(s))>>
        ELSE LET j == CHOOSE m \in later : \A o \in later : m <= o
             IN  <<SubSeq(s, start, j - 1)>> \o SplitFrom(s, sep, j + 1)

Split(s, sep) == SplitFrom(s, sep, 1)

(***************************************************************************)
(* convert_txn_date.  An epoch-millisecond timestamp exceeds the 32-bit    *)
(* integers of the model checker, so a timestamp t is held as the record   *)
(* [sec, frac] with t = 1000 * sec + frac and 0 <= frac < 1000.            *)
(***************************************************************************)
Ms(sec, frac) == [sec |-> sec, frac |-> frac]

\* datetime.utcfromtimestamp(seconds): the proleptic Gregorian UTC date and
\* time of day of a non-negative epoch second (the fraction is below a second)
utcfromtimestamp(sec) ==
    LET days == sec \div 86400
        rem  == sec % 86400
        z    == days + 719468
        era  == z \div 146097
        doe  == z - era * 146097
        yoe  == (doe - doe \div 1460 + doe \div 36524 - doe \div 146096) \div 365
        doy  == doe - (365 * yoe + yoe \div 4 - yoe \div 100)
        mp   == (5 * doy + 2) \div 153
        d    == doy - (153 * mp + 2) \div 5 + 1
        m    == IF mp < 10 THEN mp + 3 ELSE mp - 9
        y    == yoe + era * 400 + (IF m <= 2 THEN 1 ELSE 0)
    IN  [year |-> y, month |-> m, day |-> d,
         hour |-> rem \div 3600, minute |-> (rem % 3600) \div 60]

\* date_obj.strftime('%Y-%m-%d , %H:%M')
strftime(o) ==
    Pad4(o.year) \o <<"-">> \o Pad2(o.month) \o <<"-">> \o Pad2(o.day)
        \o <<" ", ",", " ">> \o Pad2(o.hour) \o <<":">> \o Pad2(o.minute)

\* the pair (date, time) returned: the two pieces of the formatted text
\* around its comma
convert_txn_date(txn_hash_date) ==
    LET date_in_seconds == txn_hash_date.sec
        date_obj == utcfromtimestamp(date_in_seconds)
        parts == Split(strftime(date_obj), ",")
    IN  [date |-> parts[1], time |-> parts[2]]

(***************************************************************************)
(* AttackIncident and process_data                                         *)
(***************************************************************************)
NewTx(txn) ==
    LET dt == convert_txn_date(txn.txnHashDate)
    IN  [tx_hash |-> txn.txnHash, tx_date |-> dt.date,
         tx_time |-> dt.time, tx_chain |-> txn.chainId]

\* the loop of __init__ over the raw transactions
RECURSIVE TransactionsData(_, _, _)
TransactionsData(transactions, i, acc) ==
    IF i > Len(transactions) THEN acc
    ELSE TransactionsData(transactions, i + 1, Append(acc, NewTx(transactions[i])))

AttackIncident(project, loss, vulnerability, transactions, rootCause) ==
    [project |-> project, loss |-> loss, vulnerability |-> vulnerability,
     transactions |-> TransactionsData(transactions, 1, <<>>),
     rootCause |-> rootCause]

\* Python values: None, and the dict of a parsed body with its "list"
PyNone == [kind |-> "None", list |-> <<>>]

Dict(l) == [kind |-> "dict", list |-> l]

\* A raw record is a dict whose keys are rec.keys; the fields of the record
\* that are not among its keys stand for nothing and are never read.
Has(attack, key) == key \in attack.keys

NoExc == [type |-> "none", key |-> "", stage |-> ""]

KeyError(k) == [type |-> "KeyError", key |-> k, stage |-> "process_data"]

TypeError == [type |-> "TypeError", key |-> "", stage |-> "process_data"]

\* the keys process_data reads from a raw record, in the order it reads them
RecordKeys == <<"project", "loss", "rootCause", "transactions", "media">>

\* the first key of RecordKeys that the raw record lacks, "" when it has all
RECURSIVE FirstMissing(_, _)
FirstMissing(attack, i) ==
    IF i > Len(RecordKeys) THEN ""
    ELSE IF ~Has(attack, RecordKeys[i]) THEN RecordKeys[i]
    ELSE FirstMissing(attack, i + 1)

\* ProcessFrom with a record that lacks a key skipped instead of raising
RECURSIVE ProcessFrom_skip(_, _, _)
ProcessFrom_skip(list, i, acc) ==
    IF i > Len(list) THEN [exc |-> NoExc, value |-> acc]
    ELSE LET attack == list[i]
         IN  IF FirstMissing(attack, 1) # "" THEN ProcessFrom_skip(list, i + 1, acc)
             ELSE ProcessFrom_skip(list, i + 1,
                      Append(acc, AttackIncident(attack.project, attack.loss,
                                                 attack.rootCause,
                                                 attack.transactions,
                                                 attack.media)))

\* ProcessFrom with each incident put in front of the list instead of appended
RECURSIVE ProcessFrom_prepend(_, _, _)
ProcessFrom_prepend(list, i, acc) ==
    IF i > Len(list) THEN [exc |-> NoExc, value |-> acc]
    ELSE LET attack == list[i]
             missing == FirstMissing(attack, 1)
         IN  IF missing # "" THEN [exc |-> KeyError(missing), value |-> <<>>]
             ELSE ProcessFrom_prepend(list, i + 1,
                      <<AttackIncident(attack.project, attack.loss,
                                       attack.rootCause,
                                       attack.transactions,
                                       attack.media)>> \o acc)

\* the loop of process_data from raw record i on, acc the incidents so far
RECURSIVE ProcessFrom(_, _, _)
ProcessFrom(list, i, acc) ==
    IF i > Len(list) THEN [exc |-> NoExc, value |-> acc]
    ELSE LET attack == list[i]
             missing == FirstMissing(attack, 1)
         IN  IF missing # "" THEN [exc |-> KeyError(missing), value |-> <<>>]
             ELSE ProcessFrom(list, i + 1,
                      Append(acc, AttackIncident(attack.project, attack.loss,
                                                 attack.rootCause,
                                                 attack.transactions,
                                                 attack.media)))

\* process_data(data): the incidents, or the exception that leaves it
process_data(data) ==
    IF data = PyNone THEN [exc |-> TypeError, value |-> <<>>]
    ELSE ProcessFrom(data.list, 1, <<>>)

(***************************************************************************)
(* make_request                                                            *)
(***************************************************************************)
\* response.text is empty: None; otherwise the parsed body
make_request(response) ==
    IF response.text = "" THEN PyNone ELSE response.json

(***************************************************************************)
(* write_to_csv                                                            *)
(***************************************************************************)
Header ==
    <<"P", "r", "o", "j", "e", "c", "t", ",", " ", "L", "o", "s", "s", ",", " ", "V",
      "u", "l", "n", "e", "r", "a", "b", "i", "l", "i", "t", "y", ",", " ", "r", "o",
      "o", "t", " ", "c", "a", "u", "s", "e", " ", "l", "i", "n", "k", ",", " ", "T",
      "r", "a", "n", "s", "a", "c", "t", "i", "o", "n", "s", ",", " ", "D", "a", "t",
      "e", ",", " ", "T", "i", "m", "e", ",", " ", "C", "h", "a", "i", "n", NL>>

Absent == [exists |-> FALSE, content |-> <<>>]

\* open_w opening for append: the old content kept
open_a(f) == [exists |-> TRUE, content |-> f.content]

\* open('out/attack_incidents.csv', 'w'): created or truncated
open_w(f) == [exists |-> TRUE, content |-> <<>>]

\* file.write(s)
write(f, s) == [f EXCEPT !.content = @ \o s]

\* the first write of an incident's iteration: its four incident-level values
IncidentPrefix(a) ==
    a.project \o <<",">> \o Str(a.loss) \o <<",">> \o a.vulnerability
        \o <<",">> \o a.rootCause

\* the write that ends the iteration of one transaction
TxSuffix(tx) ==
    <<",">> \o tx.tx_hash \o <<",">> \o tx.tx_date \o <<",">> \o tx.tx_time
        \o <<",">> \o Str(tx.tx_chain) \o <<NL>>

\* WriteTxns without the placeholders of the continuation rows
RECURSIVE WriteTxns_nocont(_, _, _)
WriteTxns_nocont(f, txs, i) ==
    IF i > Len(txs) THEN f
    ELSE WriteTxns_nocont(write(f, TxSuffix(txs[i])), txs, i + 1)

\* WriteTxns with one placeholder too few on the continuation rows
RECURSIVE WriteTxns_short(_, _, _)
WriteTxns_short(f, txs, i) ==
    IF i > Len(txs) THEN f
    ELSE LET g == IF i # 1 THEN write(f, <<" ", ",", " ", ",">>) ELSE f
         IN  WriteTxns_short(write(g, TxSuffix(txs[i])), txs, i + 1)

\* the inner loop, from transaction i (1-based here, i - 1 in the code)
RECURSIVE WriteTxns(_, _, _)
WriteTxns(f, txs, i) ==
    IF i > Len(txs) THEN f
    ELSE LET g == IF i # 1 THEN write(f, <<" ", ",", " ", ",", " ", ",">>) ELSE f
         IN  WriteTxns(write(g, TxSuffix(txs[i])), txs, i + 1)

\* everything one iteration of the outer loop writes
WriteIncident(f, a) == WriteTxns(write(f, IncidentPrefix(a)), a.transactions, 1)

RECURSIVE WriteIncidents(_, _, _)
WriteIncidents(f, list, k) ==
    IF k > Len(list) THEN f
    ELSE WriteIncidents(WriteIncident(f, list[k]), list, k + 1)

write_to_csv(attack_incidents_list, f) ==
    WriteIncidents(write(open_w(f), Header), attack_incidents_list, 1)

(***************************************************************************)
(* The responses the endpoint may give                                     *)
(***************************************************************************)
Projects == {<<"a">>, <<"b">>, <<"c", ",", "d">>}

Losses == {1200}

Vulnerability == <<"b", "u", "g">>

Media == <<"u", "r", "l">>

Stamps == <<Ms(1700000000, 0), Ms(951827696, 789), Ms(0, 0)>>

Chains == <<1, 56>>

RawTxn(k) ==
    [txnHash |-> <<"0", "x", Digits[(k % 10) + 1]>>,
     txnHashDate |-> Stamps[((k - 1) % Len(Stamps)) + 1],
     chainId |-> Chains[((k - 1) % Len(Chains)) + 1]]

\* the first n sample transactions
RECURSIVE RawTxns(_)
RawTxns(n) == IF n = 0 THEN <<>> ELSE Append(RawTxns(n - 1), RawTxn(n))

TxLists(maxTx) == {RawTxns(n) : n \in 0..maxTx}

AllKeys == {"project", "loss", "rootCause", "transactions", "media"}

\* complete records, records without "media", records without "project"
RawRecords(maxTx) ==
    {[keys |-> AllKeys, project |-> p, loss |-> l,
      rootCause |-> Vulnerability, transactions |-> t, media |-> Media] :
         p \in Projects, l \in Losses, t \in TxLists(maxTx)}
    \cup {[keys |-> AllKeys \ {"media"}, project |-> p, loss |-> l,
           rootCause |-> Vulnerability, transactions |-> t, media |-> <<>>] :
              p \in Projects, l \in Losses, t \in TxLists(maxTx)}
    \cup {[keys |-> AllKeys \ {"project"}, project |-> <<>>, loss |-> l,
           rootCause |-> Vulnerability, transactions |-> t, media |-> Media] :
              l \in Losses, t \in TxLists(maxTx)}

\* the sequences over S of length at most n
RECURSIVE SeqsUpTo(_, _)
SeqsUpTo(S, n) ==
    IF n = 0 THEN {<<>>}
    ELSE LET T == SeqsUpTo(S, n - 1)
         IN  T \cup {Append(t, x) : t \in T, x \in S}

Responses(maxRec, maxTx) ==
    {[text |-> "", json |-> PyNone]}
    \cup {[text |-> "json", json |-> Dict(l)] :
             l \in SeqsUpTo(RawRecords(maxTx), maxRec)}

\* the responses of a single run, and those of the repeated runs
SpecResponses == Responses(MaxRecords, MaxTxns)

RunResponses == Responses(RunMaxRecords, RunMaxTxns)

(***************************************************************************)
(* State: one run of main(), and the file system it leaves behind          *)
(***************************************************************************)
VARIABLES
    pc,            \* the stage main() is at
    dirExists,     \* ./out is a directory
    file,          \* out/attack_incidents.csv
    data,          \* main's data
    incidents,     \* main's attack_incidents_list
    exc,           \* the exception that ended the run, NoExc if none
    fileAtStart,   \* history: the file when this run began
    prevData       \* history: data of the latest earlier run that wrote the file

vars == <<pc, dirExists, file, data, incidents, exc, fileAtStart, prevData>>

NoData == [kind |-> "unset", list |-> <<>>]

HeaderOnly == [exists |-> TRUE, content |-> Header]

\* a first run: no directory, or a directory without the file, or the file
\* of an earlier run whose response held no record
Init ==
    /\ pc = "mkdir"
    /\ \/ dirExists = FALSE /\ file = Absent
       \/ dirExists = TRUE /\ file \in {Absent, HeaderOnly}
    /\ data = NoData
    /\ incidents = <<>>
    /\ exc = NoExc
    /\ fileAtStart = file
    /\ prevData = NoData

\* lines 125-128
MainMkdir ==
    /\ pc = "mkdir"
    /\ dirExists' = (IF ~dirExists THEN TRUE ELSE dirExists)
    /\ pc' = "request"
    /\ UNCHANGED <<file, data, incidents, exc, fileAtStart, prevData>>

\* line 137
MainMakeRequest(responses) ==
    /\ pc = "request"
    /\ \E response \in responses : data' = make_request(response)
    /\ pc' = "process"
    /\ UNCHANGED <<dirExists, file, incidents, exc, fileAtStart, prevData>>

\* line 138: an exception of process_data is not caught and ends the run
MainProcessData ==
    /\ pc = "process"
    /\ LET r == process_data(data)
       IN  IF r.exc = NoExc
           THEN /\ incidents' = r.value
                /\ pc' = "write"
                /\ exc' = exc
           ELSE /\ incidents' = incidents
                /\ pc' = "failed"
                /\ exc' = r.exc
    /\ UNCHANGED <<dirExists, file, data, fileAtStart, prevData>>

\* line 139
MainWriteToCsv ==
    /\ pc = "write"
    /\ file' = write_to_csv(incidents, file)
    /\ pc' = "done"
    /\ UNCHANGED <<dirExists, data, incidents, exc, fileAtStart, prevData>>

\* the program is started again: the locals are gone, the file system stays
Restart ==
    /\ pc \in {"done", "failed"}
    /\ pc' = "mkdir"
    /\ data' = NoData
    /\ incidents' = <<>>
    /\ exc' = NoExc
    /\ fileAtStart' = file
    /\ prevData' = IF pc = "done" THEN data ELSE prevData
    /\ UNCHANGED <<dirExists, file>>

Next ==
    \/ MainMkdir
    \/ MainMakeRequest(SpecResponses)
    \/ MainProcessData
    \/ MainWriteToCsv

Spec == Init /\ [][Next]_vars

InitRuns ==
    /\ pc = "mkdir"
    /\ dirExists \in BOOLEAN
    /\ file = Absent
    /\ data = NoData
    /\ incidents = <<>>
    /\ exc = NoExc
    /\ fileAtStart = file
    /\ prevData = NoData

NextRuns ==
    \/ MainMkdir
    \/ MainMakeRequest(RunResponses)
    \/ MainProcessData
    \/ MainWriteToCsv
    \/ Restart

SpecRuns == InitRuns /\ [][NextRuns]_vars

(***************************************************************************)
(* Reading the output file back                                            *)
(***************************************************************************)
RECURSIVE Join(_, _)
Join(fields, sep) ==
    IF Len(fields) = 0 THEN <<>>
    ELSE IF Len(fields) = 1 THEN fields[1]
    ELSE fields[1] \o <<sep>> \o Join(Tail(fields), sep)

IsSuffix(s, t) ==
    /\ Len(s) <= Len(t)
    /\ SubSeq(t, Len(t) - Len(s) + 1, Len(t)) = s

\* the pieces of the file between newlines: the newline-terminated lines,
\* then what follows the last newline (empty when the file ends with one)
Pieces == Split(file.content, NL)

Lines == SubSeq(Pieces, 1, Len(Pieces) - 1)

Remainder == Pieces[Len(Pieces)]

HeaderLine == SubSeq(Header, 1, Len(Header) - 1)

NTx(k) == Len(incidents[k].transactions)

\* the transactions of the first k incidents
RECURSIVE SumTx(_)
SumTx(k) == IF k = 0 THEN 0 ELSE SumTx(k - 1) + NTx(k)

\* the newline-terminated lines written before incident k's first transaction
RowBase(k) == 1 + SumTx(k - 1)

IncidentCols(a) == <<a.project, Str(a.loss), a.vulnerability, a.rootCause>>

TxCols(tx) == <<tx.tx_hash, tx.tx_date, tx.tx_time, Str(tx.tx_chain)>>

IsDict(d) == d.kind = "dict"

(***************************************************************************)
(* Claims                                                                  *)
(***************************************************************************)

\* C1: after an empty response body (make_request returned None) the run
\* ends with no exception and with the output file neither created nor
\* overwritten.
C1_EmptyBodyEndsCleanly ==
    (data = PyNone /\ pc \in {"write", "done", "failed"})
        => (pc = "done" /\ exc = NoExc /\ file = fileAtStart)

\* the row an incident without transactions should get when rows are laid
\* out one per incident or transaction: line 1 is the header
RECURSIVE OwnRowsBefore(_)
OwnRowsBefore(k) ==
    IF k = 0 THEN 0
    ELSE OwnRowsBefore(k - 1) + (IF NTx(k) = 0 THEN 1 ELSE NTx(k))

\* C2: an incident with zero transactions has exactly one newline-terminated
\* row of its own, holding its four incident-level columns and four empty
\* transaction columns.
C2_ZeroTxnIncidentOwnRow ==
    pc = "done" =>
        \A k \in 1..Len(incidents) :
            NTx(k) = 0 =>
                /\ Len(Lines) = 1 + OwnRowsBefore(Len(incidents))
                /\ Split(Lines[2 + OwnRowsBefore(k - 1)], ",")
                       = IncidentCols(incidents[k]) \o <<<<>>, <<>>, <<>>, <<>>>>

HasKey(d, key) == \A k \in 1..Len(d.list) : Has(d.list[k], key)

\* C5: a response with a raw record lacking "project" ends the run in
\* process_data with a missing-key error, the output file left as it was.
C5_MissingProjectFailsInTransform ==
    (pc \in {"write", "done", "failed"} /\ IsDict(data) /\ ~HasKey(data, "project"))
        => /\ pc = "failed"
           /\ exc.type = "KeyError"
           /\ exc.stage = "process_data"
           /\ file = fileAtStart

\* C5 witness: the malformed record is the second of two, the file existed
\* before the run, and the run has failed on the missing "project".
C5_Witness ==
    /\ pc = "failed"
    /\ IsDict(data)
    /\ Len(data.list) = 2
    /\ Has(data.list[1], "project")
    /\ ~Has(data.list[2], "project")
    /\ exc = KeyError("project")
    /\ fileAtStart.exists

\* C6: the date and time derived from the timestamp 1700000000000 are
\* "2023-11-14" and "22:13".
C6_DateTimeOfSample ==
    pc \in {"write", "done"} =>
        \A k \in 1..Len(incidents) : \A j \in 1..NTx(k) :
            data.list[k].transactions[j].txnHashDate = Ms(1700000000, 0) =>
                /\ incidents[k].transactions[j].tx_date
                       = <<"2", "0", "2", "3", "-", "1", "1", "-", "1", "4">>
                /\ incidents[k].transactions[j].tx_time
                       = <<"2", "2", ":", "1", "3">>

\* C7: a response whose records all have project, loss, rootCause and
\* transactions is processed without an error, whether or not "media" is there.
C7_MediaOptional ==
    (/\ pc \in {"write", "done", "failed"}
     /\ IsDict(data)
     /\ HasKey(data, "project") /\ HasKey(data, "loss")
     /\ HasKey(data, "rootCause") /\ HasKey(data, "transactions"))
        => (pc # "failed" /\ exc = NoExc /\ Len(incidents) = Len(data.list))

Blank(t) == \A i \in 1..Len(t) : t[i] = " "

IsInfix(s, t) ==
    \E i \in 0..(Len(t) - Len(s)) : SubSeq(t, i + 1, i + Len(s)) = s

FirstRow(a) == Join(IncidentCols(a) \o TxCols(a.transactions[1]), ",")

HasDelim(t) == \E i \in 1..Len(t) : t[i] \in {",", NL}

NoDelims ==
    \A k \in 1..Len(incidents) :
        LET a == incidents[k]
        IN  /\ ~HasDelim(a.project)
            /\ ~HasDelim(a.vulnerability)
            /\ ~HasDelim(a.rootCause)
            /\ \A j \in 1..NTx(k) :
                   /\ ~HasDelim(a.transactions[j].tx_hash)
                   /\ ~HasDelim(a.transactions[j].tx_date)
                   /\ ~HasDelim(a.transactions[j].tx_time)

IsNumber(t) == Len(t) > 0 /\ \A i \in 1..Len(t) : \E d \in 1..10 : Digits[d] = t[i]

DigitVal(c) == (CHOOSE d \in 1..10 : Digits[d] = c) - 1

RECURSIVE ToInt(_)
ToInt(t) == IF Len(t) = 0 THEN 0
            ELSE 10 * ToInt(SubSeq(t, 1, Len(t) - 1)) + DigitVal(t[Len(t)])

\* a line of the file that starts an incident: not empty, first column not " "
IsIncidentRow(line) == line # <<>> /\ Split(line, ",")[1] # <<" ">>

\* the file re-read: the pieces after the header that start an incident
IncidentRows == SelectSeq(SubSeq(Pieces, 2, Len(Pieces)), IsIncidentRow)

\* C4: splitting the rows of the file on commas gives back the project, the
\* loss and the vulnerability of every raw record (stated for the records
\* whose values hold no comma or newline, where the split is unambiguous).
C4_RoundTrip ==
    (pc = "done" /\ NoDelims) =>
        /\ Len(IncidentRows) = Len(data.list)
        /\ \A k \in 1..Len(data.list) :
               LET f == Split(IncidentRows[k], ",")
               IN  /\ Len(f) >= 3
                   /\ f[1] = data.list[k].project
                   /\ IsNumber(f[2]) /\ ToInt(f[2]) = data.list[k].loss
                   /\ f[3] = data.list[k].rootCause

\* the line, or the unterminated end of the file, that holds what is written
\* right after the lines before incident k's rows
Carrier(k) ==
    IF RowBase(k) + 1 <= Len(Lines) THEN Lines[RowBase(k) + 1] ELSE Remainder

\* C8: process_data gives one incident per raw record, in the records' order
\* and with the transactions in their order; in the file the lines of
\* incident k come after those of incidents 1..k-1 and hold its values.
C8_OrderPreserved ==
    /\ pc \in {"write", "done"} =>
           /\ Len(incidents) = Len(data.list)
           /\ \A k \in 1..Len(incidents) :
                  LET a == incidents[k]
                      r == data.list[k]
                  IN  /\ a.project = r.project
                      /\ a.loss = r.loss
                      /\ a.vulnerability = r.rootCause
                      /\ a.rootCause = r.media
                      /\ Len(a.transactions) = Len(r.transactions)
                      /\ \A j \in 1..Len(a.transactions) :
                             /\ a.transactions[j].tx_hash = r.transactions[j].txnHash
                             /\ a.transactions[j].tx_chain = r.transactions[j].chainId
    /\ pc = "done" =>
           /\ Lines[1] = HeaderLine
           /\ Len(Lines) = 1 + SumTx(Len(incidents))
           /\ \A k \in 1..Len(incidents) :
                  LET a == incidents[k]
                  IN  /\ IsInfix(Join(IncidentCols(a), ","), Carrier(k))
                      /\ NTx(k) > 0 => IsSuffix(FirstRow(a), Lines[RowBase(k) + 1])
                      /\ \A j \in 1..NTx(k) :
                             IsSuffix(<<",">> \o Join(TxCols(a.transactions[j]), ","),
                                      Lines[RowBase(k) + j])

\* C8 witness: two incidents of different projects, the first with two
\* transactions, have been written.
C8_Witness ==
    /\ pc = "done"
    /\ Len(incidents) = 2
    /\ incidents[1].project # incidents[2].project
    /\ NTx(1) = 2
    /\ NTx(2) >= 1

\* the characters written for the transactions j..N of an incident
RECURSIVE TxnsLen(_, _)
TxnsLen(a, j) ==
    IF j > Len(a.transactions) THEN 0
    ELSE (IF j > 1 THEN 6 ELSE 0) + 1 + Len(Join(TxCols(a.transactions[j]), ","))
             + 1 + TxnsLen(a, j + 1)

\* the characters written for the incidents k..n
RECURSIVE RowsLen(_)
RowsLen(k) ==
    IF k > Len(incidents) THEN 0
    ELSE Len(Join(IncidentCols(incidents[k]), ",")) + TxnsLen(incidents[k], 1)
             + RowsLen(k + 1)

\* C9: after a run that wrote, the directory and the file exist, the file
\* holds the header once, as its first line, and then only what this run
\* wrote for its incidents; a run on the response of the run before it
\* leaves the file as it was.
C9_FileReplacedEachRun ==
    pc = "done" =>
        /\ dirExists
        /\ file.exists
        /\ Lines[1] = HeaderLine
        /\ Cardinality({i \in 1..Len(Pieces) : Pieces[i] = HeaderLine}) = 1
        /\ Len(Lines) = 1 + SumTx(Len(incidents))
        /\ Len(file.content) = Len(Header) + RowsLen(1)
        /\ prevData = data => file = fileAtStart

\* C9 witness: a run has replaced a longer file of an earlier run on another
\* response.
C9_Witness ==
    /\ pc = "done"
    /\ fileAtStart.exists
    /\ prevData # data
    /\ Len(fileAtStart.content) > Len(file.content)
    /\ Len(incidents) = 1

\* C10: when every incident has a transaction and no value holds a comma or
\* a newline, the file ends with a newline, every line of it (the header
\* too) has 8 comma-separated fields, and fields 5 to 8 of each data line are
\* the hash, date, time and chain of its transaction.
C10_EightFields ==
    (pc = "done" /\ NoDelims /\ \A k \in 1..Len(incidents) : NTx(k) >= 1) =>
        /\ Remainder = <<>>
        /\ \A i \in 1..Len(Lines) : Len(Split(Lines[i], ",")) = 8
        /\ \A k \in 1..Len(incidents) : \A j \in 1..NTx(k) :
               SubSeq(Split(Lines[RowBase(k) + j], ","), 5, 8)
                   = TxCols(incidents[k].transactions[j])

\* C10 witness: a first row and a continuation row, then another incident's
\* row, have been written from values without delimiters.
C10_Witness ==
    /\ pc = "done"
    /\ NoDelims
    /\ Len(incidents) = 2
    /\ NTx(1) = 2
    /\ NTx(2) = 1

TypeOK == pc \in {"mkdir", "request", "process", "write", "done", "failed"}

=============================================================================
